---------------------------- MODULE Spec2Model ----------------------------
(***************************************************************************)
(* A model of the aoc-utils grid family: the Dense Grid (src/src/grid.rs),  *)
(* the Sparse Grid (src/src/grid/sparse.rs) and the Transform View          *)
(* (src/src/grid.rs).  Every operation of the library is a pure function of *)
(* the object it is called on; the state machine below holds one object of  *)
(* each kind, the last call made on it and what that call returned.         *)
(*                                                                         *)
(* A Rust panic is a return value [panic |-> TRUE].  The library behaves    *)
(* differently in the two cargo profiles (debug_assert!, cfg(debug_         *)
(* assertions) and arithmetic overflow checks exist only in debug builds),  *)
(* so the profile is part of the state: build \in {"debug", "release"}.     *)
(***************************************************************************)
EXTENDS Integers, Sequences, FiniteSets

VARIABLES
    build,      \* the cargo profile the library was compiled with
    grid,       \* the Dense Grid: [inner |-> Seq(cell), width |-> Nat]
    made,       \* the constructor call that produced grid (and the writes since)
    call,       \* the last call: [op |-> ..., its arguments]
    ret,        \* what the last call returned: [panic |-> BOOLEAN, val |-> ...]
    sparse,     \* the Sparse Grid: [inner |-> [keys -> cell], default |-> cell]
    touched,    \* history: the points the Sparse Grid was mutably indexed at
    tf,         \* the Transform View: [built, matrix, matrix_inv] over grid
    uf,         \* the UnionFind: [inner |-> Seq([parent, rank]), distinct_count]
    queue,      \* the BucketQueue: [inner |-> [0..N-1 -> set], priorities]
    past        \* history of the calls made on uf or on queue

vars == <<build, grid, made, call, ret, sparse, touched, tf, uf, queue, past>>

Builds == {"debug", "release"}

-----------------------------------------------------------------------------
(* Bounds of the model.                                                     *)

\* Dense grids built by new_with_dimensions are at most MaxDim x MaxDim.
MaxDim == 3
\* Writes through index_mut per constructed dense grid.
MaxWrites == 1
\* Input texts of Grid::read are at most MaxText characters long.
MaxText == 5
\* Grid::new is given rows that hold at most MaxCells cells in all.
MaxCells == 5
\* The Sparse Grid is used at the points of (-1..MaxKeyCoord) x (-1..MaxKeyCoord)
\* and holds at most MaxKeys keys.
MaxKeyCoord == 0
MaxKeys == 2
\* Transform matrices have entries in -MaxEntry..MaxEntry (and BigEntry).
MaxEntry == 1
\* TransformGrid::rot is called with counts up to MaxRot.
MaxRot == 4
\* UnionFind::new is called with up to MaxItems items.
MaxItems == 4
\* At most MaxUnions calls of union are made on one UnionFind.
MaxUnions == 3
\* The const parameter N of BucketQueue<T, N>: priorities are below N.
N == 3

-----------------------------------------------------------------------------
(* Values.                                                                  *)

Point(px, py) == [x |-> px, y |-> py]

Ok(v) == [panic |-> FALSE, val |-> v]
\* A call that returned (), nothing.
Returned == [panic |-> FALSE]
Panicked == [panic |-> TRUE]

Abs(n) == IF n < 0 THEN -n ELSE n

RECURSIVE Flatten(_)
\* Iterator::flatten over a sequence of sequences.
Flatten(ss) == IF Len(ss) = 0 THEN <<>> ELSE Head(ss) \o Flatten(Tail(ss))

-----------------------------------------------------------------------------
(* Dense Grid, src/src/grid.rs.                                             *)

\* Grid::idx: y * width + x in usize.  The arguments are i32 coordinates cast
\* with `as usize` (sign extension), so the usize result is this integer
\* modulo 2^64: a negative value here stands for the wrapped value 2^64 + i,
\* which is beyond the length of any Vec.
idx(g, y, x) == y * g.width + x

\* Grid::dimension divides by width: a panic when inner is non-empty and
\* width is 0.
DimensionPanics(g) == Len(g.inner) # 0 /\ g.width = 0

\* Grid::dimension.
Dimension(g) ==
    IF Len(g.inner) = 0 THEN Point(0, 0)
    ELSE Point(g.width, Len(g.inner) \div g.width)

\* Grid::contains reaches dimension() only for coord.x >= 0 && coord.y >= 0.
ContainsPanics(g, coord) == coord.x >= 0 /\ coord.y >= 0 /\ DimensionPanics(g)

\* Grid::contains.
Contains(g, coord) ==
    /\ coord.x >= 0
    /\ coord.y >= 0
    /\ Dimension(g).y > coord.y
    /\ Dimension(g).x > coord.x

\* The body shared by Index<Point>::index and IndexMut<Point>::index_mut:
\* the position (1-based) in inner that the call hands out, 0 for a panic.
\* debug_assert!(self.contains(index)) exists in debug builds only; the Vec
\* index is bounds-checked in every build.
IndexSlot(b, g, index) ==
    LET i == idx(g, index.y, index.x) IN
    IF b = "debug" /\ (ContainsPanics(g, index) \/ ~Contains(g, index)) THEN 0
    ELSE IF i >= 0 /\ i < Len(g.inner) THEN i + 1
    ELSE 0

\* impl Index<Point> for Grid.
Index(b, g, index) ==
    LET s == IndexSlot(b, g, index) IN
    IF s = 0 THEN Panicked ELSE Ok(g.inner[s])

\* impl IndexMut<Point> for Grid, followed by a store of v through the
\* returned reference (`grid[index] = v`): the grid after the statement.
IndexMutStore(b, g, index, v) ==
    LET s == IndexSlot(b, g, index) IN
    IF s = 0 THEN Panicked
    ELSE Ok([g EXCEPT !.inner = [g.inner EXCEPT ![s] = v]])

\* Grid::new.
GridNew(v) ==
    IF Len(v) = 0 THEN Panicked
    ELSE Ok([inner |-> Flatten(v), width |-> Len(v[1])])

Generators == {"key"}

\* The closure handed to new_with_dimensions: a pure function of the point
\* that gives every cell of a grid a value of its own.
Generate(gen, p) == 10 * p.y + p.x + 1

\* The points new_with_dimensions hands to its closure, in call order: the
\* outer collect drives y over 0..dimension.y, the inner one x over
\* 0..dimension.x.
GeneratorCalls(dimension) ==
    Flatten([j \in 1..(IF dimension.y > 0 THEN dimension.y ELSE 0) |->
               [i \in 1..(IF dimension.x > 0 THEN dimension.x ELSE 0) |->
                  Point(i - 1, j - 1)]])

\* A plausible slip: the axes exchanged (x drives the outer range).
NewWithDimensionsTransposed(dimension, gen) ==
    GridNew([i \in 1..(IF dimension.x > 0 THEN dimension.x ELSE 0) |->
               [j \in 1..(IF dimension.y > 0 THEN dimension.y ELSE 0) |->
                  Generate(gen, Point(i - 1, j - 1))]])

\* Grid::new_with_dimensions.
NewWithDimensions(dimension, gen) ==
    GridNew([j \in 1..(IF dimension.y > 0 THEN dimension.y ELSE 0) |->
               [i \in 1..(IF dimension.x > 0 THEN dimension.x ELSE 0) |->
                  Generate(gen, Point(i - 1, j - 1))]])

\* A plausible slip: the offsets listed row by row.
NEIGHBOURS_RowMajor ==
    << Point(-1, -1), Point(0, -1), Point(1, -1), Point(-1, 0),
       Point(1, 0), Point(-1, 1), Point(0, 1), Point(1, 1) >>

\* NEIGHBOURS, as vec2(x, y) offsets.
NEIGHBOURS ==
    << Point(-1, -1), Point(-1, 0), Point(-1, 1), Point(0, -1),
       Point(0, 1), Point(1, -1), Point(1, 0), Point(1, 1) >>

PointAdd(p, d) == Point(p.x + d.x, p.y + d.y)

\* Grid::neighbours: map, filter by contains, pair with the cell.
Neighbours(b, g, src) ==
    LET moved == [k \in 1..Len(NEIGHBOURS) |-> PointAdd(src, NEIGHBOURS[k])]
        kept == SelectSeq(moved, LAMBDA n : Contains(g, n))
    IN  [k \in 1..Len(kept) |-> [p |-> kept[k], c |-> Index(b, g, kept[k]).val]]

-----------------------------------------------------------------------------
(* Text: a &str is a sequence of characters, a character a one-character    *)
(* string.  The alphabet has two cell characters and two white-space ones.  *)

NL == "\n"
Chars == {"#", ".", " ", NL}

\* char::is_whitespace, on the alphabet.
IsWhitespace(c) == c = " " \/ c = NL

\* str::find("\n"): the 0-based offset of the first newline, -1 for None.
FindNewline(s) ==
    IF \E k \in 1..Len(s) : s[k] = NL
    THEN (CHOOSE k \in 1..Len(s) : s[k] = NL /\ \A m \in 1..(k - 1) : s[m] # NL) - 1
    ELSE -1

RECURSIVE TrimStart(_)
\* str::trim_start.
TrimStart(s) ==
    IF Len(s) > 0 /\ IsWhitespace(Head(s)) THEN TrimStart(Tail(s)) ELSE s

RECURSIVE TrimEnd(_)
\* str::trim_end.
TrimEnd(s) ==
    IF Len(s) > 0 /\ IsWhitespace(s[Len(s)])
    THEN TrimEnd(SubSeq(s, 1, Len(s) - 1)) ELSE s

\* str::trim.
Trim(s) == TrimEnd(TrimStart(s))

RECURSIVE SplitLines(_)
\* str::split('\n'): the pieces between newlines; one (empty) piece for an
\* empty string.
SplitLines(s) ==
    LET n == FindNewline(s) IN
    IF n < 0 THEN <<s>>
    ELSE <<SubSeq(s, 1, n)>> \o SplitLines(SubSeq(s, n + 2, Len(s)))

Mappers == {"id", "swap"}

\* The fn(char) -> C handed to Grid::read: the identity, and a mapper that
\* exchanges the two cell characters.
Cell(mapper, c) ==
    IF mapper = "id" THEN c
    ELSE IF c = "#" THEN "." ELSE IF c = "." THEN "#" ELSE c

\* Grid::read.  The width is taken from the input as given, the cells from
\* the trimmed input; the equal-length assertion is compiled in debug builds
\* only.
Read(b, input, mapper) ==
    LET width == FindNewline(input)
        lines == SplitLines(Trim(input))
        g == Flatten([k \in 1..Len(lines) |->
                        [m \in 1..Len(lines[k]) |-> Cell(mapper, lines[k][m])]])
        line_lens == [k \in 1..Len(lines) |-> Len(lines[k])]
    IN  IF width < 0 THEN Panicked
        ELSE IF /\ b = "debug"
                /\ Len(line_lens) > 0
                /\ ~(\A k \in 1..Len(line_lens) :
                        line_lens[k] = line_lens[1] /\ line_lens[k] = width)
             THEN Panicked
        ELSE Ok([inner |-> g, width |-> width])

RECURSIVE Chunks(_, _)
\* slice::chunks(n) for n > 0: the last chunk may be shorter.
Chunks(s, n) ==
    IF Len(s) = 0 THEN <<>>
    ELSE IF Len(s) <= n THEN <<s>>
    ELSE <<SubSeq(s, 1, n)>> \o Chunks(SubSeq(s, n + 1, Len(s)), n)

RECURSIVE Join(_)
\* [String]::join("\n").
Join(ss) ==
    IF Len(ss) = 0 THEN <<>>
    ELSE IF Len(ss) = 1 THEN ss[1]
    ELSE ss[1] \o <<NL>> \o Join(Tail(ss))

\* A plausible slip: every row terminated by a newline (as
\* TransformGrid::display does).
DisplayTrailingNewline(g) ==
    IF g.width = 0 THEN Panicked
    ELSE Ok(Join(Chunks(g.inner, g.width)) \o <<NL>>)

\* Grid::display for cells that format as one character each (char cells).
\* slice::chunks panics on a chunk size of 0.
Display(g) ==
    IF g.width = 0 THEN Panicked
    ELSE Ok(Join(Chunks(g.inner, g.width)))

-----------------------------------------------------------------------------
(* Sparse Grid, src/src/grid/sparse.rs.  inner is a HashMap<Point, C>: a    *)
(* function whose domain is the set of present keys.                        *)

\* SparseGrid::new.
SparseNew(default) == [inner |-> <<>>, default |-> default]

\* impl Index<Point> for SparseGrid: inner.get(&index).unwrap_or(&default).
SparseIndex(sg, index) ==
    IF index \in DOMAIN sg.inner THEN sg.inner[index] ELSE sg.default

\* A plausible slip: the entry is looked up but nothing is inserted.
SparseIndexMutNoInsert(sg, index) == sg

\* impl IndexMut<Point> for SparseGrid: the grid once
\* inner.entry(index).or_insert_with(|| default.clone()) has run.
SparseIndexMut(sg, index) ==
    IF index \in DOMAIN sg.inner THEN sg
    ELSE [sg EXCEPT !.inner =
            [q \in DOMAIN sg.inner \cup {index} |->
               IF q = index THEN sg.default ELSE sg.inner[q]]]

\* `sparse[index] = c`: index_mut, then a store through the handle.
SparseStore(sg, index, c) ==
    LET m == SparseIndexMut(sg, index) IN
    [m EXCEPT !.inner = [m.inner EXCEPT ![index] = c]]

\* SparseGrid::contains.
SparseContains(sg, coord) == coord \in DOMAIN sg.inner

\* SparseGrid::get: always Some.
SparseGet(sg, p) ==
    [some |-> TRUE, val |-> IF p \in DOMAIN sg.inner THEN sg.inner[p] ELSE sg.default]

UP_RIGHT_DOWN_LEFT == << Point(0, -1), Point(1, 0), Point(0, 1), Point(-1, 0) >>

\* SparseGrid::adjacent: the four neighbours, not filtered.
SparseAdjacent(sg, src) ==
    [k \in 1..Len(UP_RIGHT_DOWN_LEFT) |->
       [p |-> PointAdd(src, UP_RIGHT_DOWN_LEFT[k]),
        c |-> SparseIndex(sg, PointAdd(src, UP_RIGHT_DOWN_LEFT[k]))]]

\* MinMax for Point.
PointMin(a, b) ==
    Point(IF a.x < b.x THEN a.x ELSE b.x, IF a.y < b.y THEN a.y ELSE b.y)
PointMax(a, b) ==
    Point(IF a.x > b.x THEN a.x ELSE b.x, IF a.y > b.y THEN a.y ELSE b.y)

RECURSIVE MinElementwise(_)
\* MinMaxIterator::min_elementwise over a non-empty set of keys (reduce; the
\* iteration order of a HashMap is arbitrary, CHOOSE fixes one).
MinElementwise(keys) ==
    LET k == CHOOSE q \in keys : TRUE IN
    IF keys = {k} THEN k ELSE PointMin(k, MinElementwise(keys \ {k}))

RECURSIVE MaxElementwise(_)
\* MinMaxIterator::max_elementwise over a non-empty set of keys.
MaxElementwise(keys) ==
    LET k == CHOOSE q \in keys : TRUE IN
    IF keys = {k} THEN k ELSE PointMax(k, MaxElementwise(keys \ {k}))

\* SparseGrid::dimension: reduce(...).expect(...) panics without keys.
SparseDimension(sg) ==
    IF DOMAIN sg.inner = {} THEN Panicked
    ELSE LET hi == MaxElementwise(DOMAIN sg.inner)
             lo == MinElementwise(DOMAIN sg.inner)
         IN  Ok(Point(hi.x - lo.x + 1, hi.y - lo.y + 1))

\* Grid::new_with_dimensions_uniform.
NewWithDimensionsUniform(dimension, new) ==
    GridNew([j \in 1..(IF dimension.y > 0 THEN dimension.y ELSE 0) |->
               [i \in 1..(IF dimension.x > 0 THEN dimension.x ELSE 0) |-> new]])

RECURSIVE StoreAll(_, _, _, _, _)
\* for (p, c) in value.inner { grid[(p - min).to_point()] = c; }
StoreAll(b, g, sg, keys, min) ==
    IF keys = {} THEN Ok(g)
    ELSE LET p == CHOOSE q \in keys : TRUE
             r == IndexMutStore(b, g, Point(p.x - min.x, p.y - min.y), sg.inner[p])
         IN  IF r.panic THEN Panicked
             ELSE StoreAll(b, r.val, sg, keys \ {p}, min)

RECURSIVE StoreAllUnshifted(_, _, _, _, _)
\* The loop of a conversion that forgets the shift: p, not p - min.
StoreAllUnshifted(b, g, sg, keys, min) ==
    IF keys = {} THEN Ok(g)
    ELSE LET p == CHOOSE q \in keys : TRUE
             r == IndexMutStore(b, g, p, sg.inner[p])
         IN  IF r.panic THEN Panicked
             ELSE StoreAllUnshifted(b, r.val, sg, keys \ {p}, min)

\* A plausible slip: the keys stored at p, not at p - min.
SparseIntoGridUnshifted(b, value) ==
    LET dim == SparseDimension(value) IN
    IF dim.panic THEN Panicked
    ELSE LET min == MinElementwise(DOMAIN value.inner)
             g == NewWithDimensionsUniform(dim.val, value.default)
         IN  IF g.panic THEN Panicked
             ELSE StoreAllUnshifted(b, g.val, value, DOMAIN value.inner, min)

\* impl From<SparseGrid<C>> for Grid<C>.
SparseIntoGrid(b, value) ==
    LET dim == SparseDimension(value) IN
    IF dim.panic THEN Panicked
    ELSE LET min == MinElementwise(DOMAIN value.inner)
             g == NewWithDimensionsUniform(dim.val, value.default)
         IN  IF g.panic THEN Panicked
             ELSE StoreAll(b, g.val, value, DOMAIN value.inner, min)

-----------------------------------------------------------------------------
(* i32 arithmetic of the determinant, src/src/grid.rs line 365.  An exact   *)
(* integer is kept as three limbs <<t, m, l>> standing for                   *)
(* t * Limb^2 + m * Limb + l, so that products beyond 2^31 can be told from  *)
(* their wrapped i32 values.  Exact for operands up to 2 * BigEntry.         *)

Limb == 2^15

\* An entry whose square is 2^32: a * d wraps to 0 in i32.
BigEntry == 2 * Limb

\* The exact product of two i32 values.
WideMul(a, d) ==
    LET ah == a \div Limb
        al == a % Limb
        dh == d \div Limb
        dl == d % Limb
    IN  <<ah * dh, ah * dl + al * dh, al * dl>>

WideSub(u, v) == <<u[1] - v[1], u[2] - v[2], u[3] - v[3]>>

\* The limbs carried: m and l in 0..Limb-1.
WideNorm(u) ==
    LET l0 == u[3] % Limb
        m == u[2] + (u[3] \div Limb)
    IN  <<u[1] + (m \div Limb), m % Limb, l0>>

WideOf(k) == WideNorm(<<0, 0, k>>)

\* Whether a carried value lies in -2^31..2^31-1 (Limb^2 is 2^30).
FitsI32(n) == n[1] \in -2..1

\* The i32 a carried value wraps to: its residue modulo 2^32, signed.
WrapI32(n) ==
    LET t == n[1] % 4 IN
    (IF t >= 2 THEN t - 4 ELSE t) * Limb * Limb + n[2] * Limb + n[3]

\* a * d - b * c over the integers, carried.
ExactDet(m) ==
    WideNorm(WideSub(WideMul(m[1][1], m[2][2]), WideMul(m[1][2], m[2][1])))

\* `let det = a * d - b * c;` panics in a debug build when a product or the
\* difference overflows i32 (overflow checks), and wraps in a release build.
DetOverflows(m) ==
    \/ ~FitsI32(WideNorm(WideMul(m[1][1], m[2][2])))
    \/ ~FitsI32(WideNorm(WideMul(m[1][2], m[2][1])))
    \/ ~FitsI32(ExactDet(m))

-----------------------------------------------------------------------------
(* Transform View, src/src/grid.rs.  A Matrix<i32, 2, 2> is its two rows;   *)
(* elem(r, c) is m[r + 1][c + 1].                                           *)

Identity == << <<1, 0>>, <<0, 1>> >>

\* Matrix * Matrix.
MatMul(m, n) ==
    << << m[1][1] * n[1][1] + m[1][2] * n[2][1], m[1][1] * n[1][2] + m[1][2] * n[2][2] >>,
       << m[2][1] * n[1][1] + m[2][2] * n[2][1], m[2][1] * n[1][2] + m[2][2] * n[2][2] >> >>

\* Matrix * scalar.
MatScale(m, k) ==
    << << m[1][1] * k, m[1][2] * k >>, << m[2][1] * k, m[2][2] * k >> >>

\* Matrix::transform: the matrix applied to a column vector.
MatTransform(m, v) ==
    Point(m[1][1] * v.x + m[1][2] * v.y, m[2][1] * v.x + m[2][2] * v.y)

RECURSIVE RotClockwise(_)
\* A plausible slip: the quarter turn taken the other way round.
RotClockwise(count) ==
    IF count = 0 THEN Identity
    ELSE MatMul(<< <<0, 1>>, <<-1, 0>> >>, RotClockwise(count - 1))

RECURSIVE Rot(_)
\* TransformGrid::rot: (0..count).fold(id, |a, _| rot * a).
Rot(count) ==
    IF count = 0 THEN Identity
    ELSE MatMul(<< <<0, -1>>, <<1, 0>> >>, Rot(count - 1))

\* A plausible slip: the transformed point returned without the offset.
TransformWithoutOffset(dimension, matrix, point) == MatTransform(matrix, point)

\* transform_keep_positive_quadrant.  abs_dim_tfn - dim_tfn is never
\* negative, so Rust's truncating division is \div.
TransformKeepPositiveQuadrant(dimension, matrix, point) ==
    LET dim1 == Point(dimension.x - 1, dimension.y - 1)
        transformed_idx == MatTransform(matrix, point)
        dim_tfn == MatTransform(matrix, dim1)
        abs_dim_tfn == Point(Abs(dim_tfn.x), Abs(dim_tfn.y))
        offset == Point((abs_dim_tfn.x - dim_tfn.x) \div 2,
                        (abs_dim_tfn.y - dim_tfn.y) \div 2)
    IN  PointAdd(offset, transformed_idx)

\* TransformGrid::dimension.
ViewDimension(t, g) ==
    LET d == MatTransform(t.matrix, Dimension(g)) IN Point(Abs(d.x), Abs(d.y))

\* TransformGrid::transform_point.
TransformPoint(t, g, index) ==
    TransformKeepPositiveQuadrant(Dimension(g), t.matrix, index)

\* TransformGrid::inverse_point.
InversePoint(t, g, index) ==
    TransformKeepPositiveQuadrant(ViewDimension(t, g), t.matrix_inv, index)

\* TransformGrid::contains.
ViewContains(t, g, coord) == Contains(g, InversePoint(t, g, coord))

\* TransformGrid::from_grid: the view, or a panic.
FromGrid(b, transform) ==
    LET a == transform[1][1]
        bb == transform[1][2]
        c == transform[2][1]
        d == transform[2][2]
        det == WrapI32(ExactDet(transform))
    IN  IF b = "debug" /\ DetOverflows(transform) THEN Panicked
        ELSE IF ~(det = 1 \/ det = -1) THEN Panicked
        ELSE Ok([built |-> TRUE,
                 matrix |-> transform,
                 matrix_inv |-> MatScale(<< <<d, -bb>>, <<-c, a>> >>, det)])

-----------------------------------------------------------------------------
(* UnionFind, src/src/union_find.rs.  inner is a sequence of nodes; the     *)
(* node of element i is inner[i + 1].                                       *)

\* UnionFind::new
UnionFindNew(items) ==
    [inner |-> [i \in 1..items |-> [parent |-> i - 1, rank |-> 0]],
     distinct_count |-> items]

\* self.inner[x] panics when x is not below inner.len().
FindPanics(u, x) == x >= Len(u.inner)

RECURSIVE Find(_, _)
\* UnionFind::find: the structure after path compression and the value
\* returned.
Find(u, x) ==
    IF x # u.inner[x + 1].parent
    THEN LET r == Find(u, u.inner[x + 1].parent)
             u2 == [r.uf EXCEPT !.inner[x + 1].parent = r.val]
         IN  [uf |-> u2, val |-> u2.inner[x + 1].parent]
    ELSE [uf |-> u, val |-> u.inner[x + 1].parent]

\* UnionFind::link: both nodes are copied, changed, and written back, x first.
Link(u, x_idx, y_idx) ==
    LET x == u.inner[x_idx + 1]
        y == u.inner[y_idx + 1]
        x2 == IF x.rank > y.rank THEN x ELSE [x EXCEPT !.parent = y_idx]
        y2 == IF x.rank > y.rank THEN [y EXCEPT !.parent = x_idx]
              ELSE IF x.rank = y.rank THEN [y EXCEPT !.rank = @ + 1]
              ELSE y
    IN  [u EXCEPT !.inner = [[@ EXCEPT ![x_idx + 1] = x2] EXCEPT ![y_idx + 1] = y2]]

\* A plausible slip: the arguments linked instead of their representatives.
UnionLinksArguments(u, a, b) ==
    LET fa == Find(u, a)
        fb == Find(fa.uf, b)
    IN  IF fa.val = fb.val THEN fb.uf
        ELSE [Link(fb.uf, a, b) EXCEPT !.distinct_count = @ - 1]

\* A plausible slip: the count decremented before the early return.
UnionAlwaysDecrements(u, a, b) ==
    LET fa == Find(u, a)
        fb == Find(fa.uf, b)
    IN  IF fa.val = fb.val THEN [fb.uf EXCEPT !.distinct_count = @ - 1]
        ELSE [Link(fb.uf, fa.val, fb.val) EXCEPT !.distinct_count = @ - 1]

\* UnionFind::union.  distinct_count counts the representatives, and two
\* different ones exist where it is decremented, so the usize stays above 0.
Union(u, a, b) ==
    LET fa == Find(u, a)
        fb == Find(fa.uf, b)
    IN  IF fa.val = fb.val THEN fb.uf
        ELSE [Link(fb.uf, fa.val, fb.val) EXCEPT !.distinct_count = @ - 1]

\* UnionFind::distinct_count
DistinctCount(u) == u.distinct_count

-----------------------------------------------------------------------------
(* BucketQueue, src/src/bucket.rs.  inner[p] is the HashSet of bucket p,    *)
(* for p in 0..N-1; priorities is the HashMap from items to priorities.     *)

\* Option<Node<T>>
None == [some |-> FALSE]
Some(value, priority) == [some |-> TRUE, value |-> value, priority |-> priority]

\* BucketQueue::create panics on `assert!(v < N)`, in every build.
CreatePanics(init) == \E t \in DOMAIN init : ~(init[t] < N)

\* BucketQueue::create
Create(init) ==
    [inner |-> [p \in 0..(N - 1) |-> {t \in DOMAIN init : init[t] = p}],
     priorities |-> init]

\* BucketQueue::modify_key panics on self.inner[to] when to is not below N.
ModifyKeyPanics(q, item, to) == item \in DOMAIN q.priorities /\ ~(to < N)

\* BucketQueue::modify_key
ModifyKey(q, item, to) ==
    IF item \notin DOMAIN q.priorities THEN q
    ELSE LET current_priority == q.priorities[item]
             removed == [q.inner EXCEPT ![current_priority] = @ \ {item}]
             inserted == [removed EXCEPT ![to] = @ \cup {item}]
         IN  [inner |-> inserted,
              priorities |-> [q.priorities EXCEPT ![item] = to]]

\* The buckets that hold an item.
NonEmpty(q) == {p \in DOMAIN q.inner : q.inner[p] # {}}

\* The bucket pop_min's loop stops at: the first that holds an item.
FirstBucket(q) == CHOOSE p \in NonEmpty(q) : \A r \in NonEmpty(q) : p <= r

\* BucketQueue::pop_min: the values it can return.  bucket.items.iter().next()
\* is whichever item the HashSet yields first.
PopMinValues(q) ==
    IF NonEmpty(q) = {} THEN {None}
    ELSE {Some(x, FirstBucket(q)) : x \in q.inner[FirstBucket(q)]}

\* BucketQueue::pop_min: the queue it leaves when it returns node; the
\* priorities map is not touched.
PopMin(q, node) ==
    IF ~node.some THEN q
    ELSE [q EXCEPT !.inner[node.priority] = @ \ {node.value}]

-----------------------------------------------------------------------------
(* The state machine.  A behaviour constructs one object and then calls its *)
(* operations; a panic aborts the program, so nothing follows it.           *)

NoGrid == [inner |-> <<>>, width |-> 0]
NoSparse == SparseNew("Z")
NoTf == [built |-> FALSE]
NoUnionFind == UnionFindNew(0)
NoQueue == [inner |-> <<>>, priorities |-> <<>>]

denseVars == <<grid, made>>
sparseVars == <<sparse, touched>>

Init ==
    /\ build \in Builds
    /\ grid = NoGrid
    /\ made = [by |-> "none", writes |-> 0]
    /\ call = [op |-> "none"]
    /\ ret = [panic |-> FALSE]
    /\ sparse = NoSparse
    /\ touched = {}
    /\ tf = NoTf
    /\ uf = NoUnionFind
    /\ queue = NoQueue
    /\ past = [of |-> "none"]

Running == ~ret.panic

\* The points the operations are called at: one step outside the largest
\* grid on every side.
Coords == -1..MaxDim
Points == {Point(i, j) : i \in Coords, j \in Coords}
Dims == {Point(i, j) : i \in 0..MaxDim, j \in 0..MaxDim}
WriteValues == {77}

Texts == UNION {[1..n -> Chars] : n \in 0..MaxText}
RowShapes == {sh \in (1..MaxCells) \X (0..MaxCells) : sh[1] * sh[2] <= MaxCells}
RowSets == {<<>>} \cup UNION {[1..sh[1] -> [1..sh[2] -> Chars]] : sh \in RowShapes}

\* let grid = Grid::new_with_dimensions(dimension, gen);
DoNewWithDimensions(dimension, gen) ==
    LET r == NewWithDimensions(dimension, gen) IN
    /\ Running /\ made.by = "none"
    /\ call' = [op |-> "new_with_dimensions", dimension |-> dimension, gen |-> gen]
    /\ ret' = IF r.panic THEN r
              ELSE [panic |-> FALSE, val |-> r.val, calls |-> GeneratorCalls(dimension)]
    /\ grid' = IF r.panic THEN grid ELSE r.val
    /\ made' = [by |-> "new_with_dimensions", dimension |-> dimension,
                 gen |-> gen, writes |-> 0]
    /\ UNCHANGED <<build, sparse, touched, tf, uf, queue, past>>

\* let grid = Grid::new(rows);
DoNew(rows) ==
    LET r == GridNew(rows) IN
    /\ Running /\ made.by = "none"
    /\ call' = [op |-> "new", rows |-> rows]
    /\ ret' = r
    /\ grid' = IF r.panic THEN grid ELSE r.val
    /\ made' = [by |-> "new", rows |-> rows, writes |-> 0]
    /\ UNCHANGED <<build, sparse, touched, tf, uf, queue, past>>

\* let grid = Grid::read(input, mapper);
DoRead(input, mapper) ==
    LET r == Read(build, input, mapper) IN
    /\ Running /\ made.by = "none"
    /\ call' = [op |-> "read", input |-> input, mapper |-> mapper]
    /\ ret' = r
    /\ grid' = IF r.panic THEN grid ELSE r.val
    /\ made' = [by |-> "read", writes |-> 0]
    /\ UNCHANGED <<build, sparse, touched, tf, uf, queue, past>>

\* grid[p]
DoIndex(p) ==
    /\ Running /\ made.by = "new_with_dimensions"
    /\ call' = [op |-> "index", p |-> p]
    /\ ret' = Index(build, grid, p)
    /\ UNCHANGED <<build, grid, made, sparse, touched, tf, uf, queue, past>>

\* grid[p] = v;
DoIndexMut(p, v) ==
    LET r == IndexMutStore(build, grid, p, v) IN
    /\ Running /\ made.by = "new_with_dimensions"
    /\ made.writes < MaxWrites
    /\ call' = [op |-> "index_mut", p |-> p, v |-> v, before |-> grid]
    /\ ret' = [panic |-> r.panic]
    /\ grid' = IF r.panic THEN grid ELSE r.val
    /\ made' = [made EXCEPT !.writes = @ + 1]
    /\ UNCHANGED <<build, sparse, touched, tf, uf, queue, past>>

\* grid.neighbours(p)
DoNeighbours(p) ==
    /\ Running /\ made.by = "new_with_dimensions"
    /\ call' = [op |-> "neighbours", p |-> p]
    /\ ret' = Ok(Neighbours(build, grid, p))
    /\ UNCHANGED <<build, grid, made, sparse, touched, tf, uf, queue, past>>

\* grid.display()
DoDisplay ==
    /\ Running /\ made.by \in {"new", "read"}
    /\ call.op \in {"new", "read"}
    /\ call' = [op |-> "display"]
    /\ ret' = Display(grid)
    /\ UNCHANGED <<build, grid, made, sparse, touched, tf, uf, queue, past>>

\* Grid::read(&text, |c| c) on the text the last display() returned; the
\* grid read back is the return value, grid stays the grid displayed.
DoReadBack ==
    /\ Running /\ call.op = "display"
    /\ call' = [op |-> "read_back", input |-> ret.val]
    /\ ret' = Read(build, ret.val, "id")
    /\ UNCHANGED <<build, grid, made, sparse, touched, tf, uf, queue, past>>

NextGrid ==
    \/ made.by = "none" /\ \E d \in Dims, gen \in Generators : DoNewWithDimensions(d, gen)
    \/ \E p \in Points : DoIndex(p)
    \/ \E p \in Points, v \in WriteValues : DoIndexMut(p, v)
    \/ \E p \in Points : DoNeighbours(p)

\* The Dense Grid built by a generator and then indexed.
SpecGrid == Init /\ [][NextGrid]_vars

NextText ==
    \/ made.by = "none" /\ \E rows \in RowSets : DoNew(rows)
    \/ made.by = "none" /\ \E input \in Texts, mapper \in Mappers : DoRead(input, mapper)
    \/ DoDisplay
    \/ DoReadBack

\* The Dense Grid built from rows or from text, displayed and read back.
SpecText == Init /\ [][NextText]_vars

-----------------------------------------------------------------------------
(* Claims about the Dense Grid.                                             *)

InBox(p, d) == 0 <= p.x /\ p.x < d.x /\ 0 <= p.y /\ p.y < d.y

\* The cell stored at point n of the row-major storage of a grid w wide.
StoredAt(g, w, n) == g.inner[n.y * w + n.x + 1]

\* The in-bounds points src + order[k], in the order of `order`, each with
\* the cell stored there.
NeighbourList(order, src) ==
    LET moved == [k \in 1..Len(order) |-> PointAdd(src, order[k])]
        kept == SelectSeq(moved, LAMBDA n : InBox(n, made.dimension))
    IN  [k \in 1..Len(kept) |->
           [p |-> kept[k], c |-> StoredAt(grid, made.dimension.x, kept[k])]]

\* NW, N, NE, W, E, SW, S, SE: N decreases y, W decreases x.
CompassRowMajor ==
    << Point(-1, -1), Point(0, -1), Point(1, -1), Point(-1, 0),
       Point(1, 0), Point(-1, 1), Point(0, 1), Point(1, 1) >>

\* NW, W, SW, N, S, NE, E, SE.
CompassColumnMajor ==
    << Point(-1, -1), Point(-1, 0), Point(-1, 1), Point(0, -1),
       Point(0, 1), Point(1, -1), Point(1, 0), Point(1, 1) >>

\* C3 as stated: neighbours(point) returns the in-bounds 8-connected
\* neighbours in the order NW, N, NE, W, E, SW, S, SE, each with its cell.
C3_RowMajorOrder ==
    call.op = "neighbours" => ret.val = NeighbourList(CompassRowMajor, call.p)

\* C3 amended: neighbours(point) returns the in-bounds 8-connected
\* neighbours in the order NW, W, SW, N, S, NE, E, SE (a column-major scan of
\* the 3x3 block: x outer, y inner), each with the cell stored there.
C3_ColumnMajorOrder ==
    call.op = "neighbours" => ret.val = NeighbourList(CompassColumnMajor, call.p)

\* neighbours was called at an interior point: all eight come back.
C3_Witness == call.op = "neighbours" /\ ~ret.panic /\ Len(ret.val) = 8

\* The points of [0, d.x) x [0, d.y) in row-major order (x fastest).
RowMajorPoints(d) == [k \in 1..(d.x * d.y) |-> Point((k - 1) % d.x, (k - 1) \div d.x)]

NewWithDimensionsAsClaimed ==
    /\ ~ret.panic
    /\ ~DimensionPanics(ret.val)
    /\ Dimension(ret.val) = call.dimension
    /\ \A p \in Points :
          InBox(p, call.dimension) =>
             Index(build, ret.val, p) = Ok(Generate(call.gen, p))
    /\ ret.calls = RowMajorPoints(call.dimension)

\* C6 as stated: for every dim with non-negative components (a zero width
\* or height included) new_with_dimensions returns a grid of dimension dim
\* holding generator(p) at every p, the generator called once per point in
\* row-major order.
C6_AnyDimension ==
    call.op = "new_with_dimensions" => NewWithDimensionsAsClaimed

\* C6 amended: the same for every dim with both components at least 1.  For
\* a zero height the call aborts, and for a zero width and a positive height
\* it returns an empty grid whose dimension() is (0, 0), the generator never
\* being called.
C6_PositiveDimension ==
    call.op = "new_with_dimensions" =>
       /\ (call.dimension.x >= 1 /\ call.dimension.y >= 1) => NewWithDimensionsAsClaimed
       /\ call.dimension.y = 0 => ret.panic
       /\ (call.dimension.x = 0 /\ call.dimension.y >= 1) =>
             /\ ~ret.panic
             /\ Dimension(ret.val) = Point(0, 0)
             /\ ret.calls = <<>>

\* new_with_dimensions was called for a grid that is not square.
C6_Witness ==
    /\ call.op = "new_with_dimensions"
    /\ call.dimension = Point(2, 3)
    /\ ~ret.panic
    /\ Len(ret.calls) = 6

\* C7 as stated: indexing or mutably indexing at a point for which
\* contains(p) is false aborts; no cell is returned and none is changed.
C7_OutOfBoundsAborts ==
    (call.op \in {"index", "index_mut"} /\ ~Contains(grid, call.p)) =>
       /\ ret.panic
       /\ call.op = "index_mut" => grid = call.before

\* The lines of the trimmed input.
LinesOf(input) == SplitLines(Trim(input))

\* n >= 1 lines of identical length w >= 1 of cell characters, separated by
\* newlines, with white space before and after.
WellFormed(input) ==
    LET lines == LinesOf(input) IN
    /\ \A k \in 1..Len(lines) :
          /\ Len(lines[k]) = Len(lines[1])
          /\ Len(lines[k]) >= 1
          /\ \A m \in 1..Len(lines[k]) : ~IsWhitespace(lines[k][m])

\* C4 as stated, for the inputs that hold a newline (read rejects an input
\* without one outright, "Expect a newline character to signify width", so a
\* single line with no newline after it aborts too): for every well-formed
\* input, with or without white space (newlines included) before and after
\* it, read returns a grid of dimension (w, n) whose cell at (x, y) is the
\* mapper applied to character x of line y of the trimmed text.
C4_ReadWellFormed ==
    (call.op = "read" /\ WellFormed(call.input) /\ FindNewline(call.input) >= 0) =>
       LET lines == LinesOf(call.input) IN
       /\ ~ret.panic
       /\ ~DimensionPanics(ret.val)
       /\ Dimension(ret.val) = Point(Len(lines[1]), Len(lines))
       /\ \A k \in 1..Len(lines) : \A m \in 1..Len(lines[1]) :
             Index(build, ret.val, Point(m - 1, k - 1)) =
                Ok(Cell(call.mapper, lines[k][m]))

\* The rows joined by newlines, no newline after the last one.
JoinedRows(rows) ==
    LET n == Len(rows)
        w == Len(rows[1])
    IN  [k \in 1..(n * w + n - 1) |->
           IF k % (w + 1) = 0 THEN NL
           ELSE rows[((k - 1) \div (w + 1)) + 1][k % (w + 1)]]

RoundTripAsClaimed ==
    /\ call.op = "display" => ~ret.panic /\ ret.val = JoinedRows(made.rows)
    /\ call.op = "read_back" => ~ret.panic /\ ret.val = grid

RoundTripRows(rows) ==
    /\ Len(rows) >= 2
    /\ Len(rows[1]) >= 1
    /\ \A r \in 1..Len(rows) : \A c \in 1..Len(rows[r]) : rows[r][c] # NL
    /\ ~IsWhitespace(rows[1][1])
    /\ ~IsWhitespace(rows[Len(rows)][Len(rows[1])])

-----------------------------------------------------------------------------
(* The Sparse Grid's state machine: SparseGrid::new("Z") is the initial     *)
(* state.                                                                    *)

SparseCoords == -1..MaxKeyCoord
SparsePoints == {Point(i, j) : i \in SparseCoords, j \in SparseCoords}
SparseValues == {"A"}

\* Room for one more key, or the key is there already.
KeyFits(p) == p \in DOMAIN sparse.inner \/ Cardinality(DOMAIN sparse.inner) < MaxKeys

\* sparse[p] (read)
DoSparseIndex(p) ==
    /\ Running
    /\ call' = [op |-> "sparse_index", p |-> p]
    /\ ret' = Ok(SparseIndex(sparse, p))
    /\ UNCHANGED <<build, grid, made, sparse, touched, tf, uf, queue, past>>

\* sparse.get(p)
DoSparseGet(p) ==
    /\ Running
    /\ call' = [op |-> "sparse_get", p |-> p]
    /\ ret' = Ok(SparseGet(sparse, p))
    /\ UNCHANGED <<build, grid, made, sparse, touched, tf, uf, queue, past>>

\* sparse.contains(p)
DoSparseContains(p) ==
    /\ Running
    /\ call' = [op |-> "sparse_contains", p |-> p]
    /\ ret' = Ok(SparseContains(sparse, p))
    /\ UNCHANGED <<build, grid, made, sparse, touched, tf, uf, queue, past>>

\* sparse.adjacent(p)
DoSparseAdjacent(p) ==
    /\ Running
    /\ call' = [op |-> "sparse_adjacent", p |-> p]
    /\ ret' = Ok(SparseAdjacent(sparse, p))
    /\ UNCHANGED <<build, grid, made, sparse, touched, tf, uf, queue, past>>

\* &mut sparse[p]: the handle is not written through.
DoSparseIndexMut(p) ==
    /\ Running /\ KeyFits(p)
    /\ call' = [op |-> "sparse_index_mut", p |-> p]
    /\ sparse' = SparseIndexMut(sparse, p)
    /\ ret' = Ok(SparseIndex(sparse', p))
    /\ touched' = touched \cup {p}
    /\ UNCHANGED <<build, grid, made, tf, uf, queue, past>>

\* sparse[p] = c;
DoSparseStore(p, c) ==
    /\ Running /\ KeyFits(p)
    /\ call' = [op |-> "sparse_store", p |-> p, c |-> c]
    /\ sparse' = SparseStore(sparse, p, c)
    /\ ret' = Ok(c)
    /\ touched' = touched \cup {p}
    /\ UNCHANGED <<build, grid, made, tf, uf, queue, past>>

\* sparse.dimension()
DoSparseDimension ==
    /\ Running
    /\ call' = [op |-> "sparse_dimension"]
    /\ ret' = SparseDimension(sparse)
    /\ UNCHANGED <<build, grid, made, sparse, touched, tf, uf, queue, past>>

\* let dense: Grid<C> = sparse.clone().into();
DoSparseIntoGrid ==
    /\ Running
    /\ call' = [op |-> "sparse_into_grid"]
    /\ ret' = SparseIntoGrid(build, sparse)
    /\ UNCHANGED <<build, grid, made, sparse, touched, tf, uf, queue, past>>

NextSparse ==
    \/ \E p \in SparsePoints : DoSparseIndex(p)
    \/ \E p \in SparsePoints : DoSparseGet(p)
    \/ \E p \in SparsePoints : DoSparseContains(p)
    \/ \E p \in SparsePoints : DoSparseAdjacent(p)
    \/ \E p \in SparsePoints : DoSparseIndexMut(p)
    \/ \E p \in SparsePoints, c \in SparseValues : DoSparseStore(p, c)
    \/ DoSparseDimension
    \/ DoSparseIntoGrid

SpecSparse == Init /\ [][NextSparse]_vars

-----------------------------------------------------------------------------
(* Claims about the Sparse Grid.                                            *)

SparseReadOps == {"sparse_index", "sparse_get", "sparse_contains", "sparse_adjacent"}

\* The value the mapping holds at p, by the history of mutable indexing.
StoredOrDefault(sg, keys, p) == IF p \in keys THEN sg.inner[p] ELSE sg.default

C8_Step ==
    /\ DOMAIN sparse'.inner = touched'
    /\ call'.op \in SparseReadOps => sparse' = sparse /\ touched' = touched
    /\ call'.op = "sparse_index" =>
          ret' = Ok(StoredOrDefault(sparse, touched, call'.p))
    /\ call'.op = "sparse_get" =>
          ret' = Ok([some |-> TRUE, val |-> StoredOrDefault(sparse, touched, call'.p)])
    /\ call'.op = "sparse_contains" => ret' = Ok(call'.p \in touched)
    /\ call'.op = "sparse_adjacent" =>
          /\ Len(ret'.val) = 4
          /\ \A k \in 1..4 :
                ret'.val[k].c = StoredOrDefault(sparse, touched, ret'.val[k].p)
    /\ call'.op = "sparse_index_mut" =>
          /\ sparse'.default = sparse.default
          /\ DOMAIN sparse'.inner = DOMAIN sparse.inner \cup {call'.p}
          /\ \A q \in DOMAIN sparse.inner : sparse'.inner[q] = sparse.inner[q]
          /\ call'.p \notin DOMAIN sparse.inner =>
                sparse'.inner[call'.p] = sparse.default
          /\ ret' = Ok(sparse'.inner[call'.p])

C9_SparseIntoGrid ==
    (call.op = "sparse_into_grid" /\ touched # {}) =>
       LET K == DOMAIN sparse.inner
           lox == CHOOSE v \in {k.x : k \in K} : \A k \in K : v <= k.x
           loy == CHOOSE v \in {k.y : k \in K} : \A k \in K : v <= k.y
           hix == CHOOSE v \in {k.x : k \in K} : \A k \in K : v >= k.x
           hiy == CHOOSE v \in {k.y : k \in K} : \A k \in K : v >= k.y
           w == hix - lox + 1
           h == hiy - loy + 1
       IN  /\ ~ret.panic
           /\ Dimension(ret.val) = Point(w, h)
           /\ Len(ret.val.inner) = w * h
           /\ \A i \in 0..(w - 1), j \in 0..(h - 1) :
                 StoredAt(ret.val, w, Point(i, j)) =
                    IF Point(i + lox, j + loy) \in K
                    THEN sparse.inner[Point(i + lox, j + loy)]
                    ELSE sparse.default

\* A Sparse Grid with two keys, one of them at negative coordinates and one
\* holding a value other than the default, was converted.
C9_Witness ==
    /\ call.op = "sparse_into_grid"
    /\ ~ret.panic
    /\ Cardinality(DOMAIN sparse.inner) = 2
    /\ \E k \in DOMAIN sparse.inner : k.x < 0 /\ k.y < 0
    /\ \E k \in DOMAIN sparse.inner : sparse.inner[k] # sparse.default
    /\ Len(ret.val.inner) = 4

-----------------------------------------------------------------------------
(* The Transform View's state machine: a uniform grid of () cells is built, *)
(* a view is made over it, and one method of the view is called.            *)

ViewDims == {Point(i, j) : i \in 1..MaxDim, j \in 1..MaxDim}
SmallEntries == -MaxEntry..MaxEntry
MatEntries == SmallEntries \cup {BigEntry}
Matrices == {<< <<a, b>>, <<c, d>> >> : a \in MatEntries, b \in MatEntries,
                                        c \in MatEntries, d \in MatEntries}

\* The point mapping is modelled for matrices without BigEntry: there its
\* i32 arithmetic stays far from overflow.
HasSmallEntries(m) == \A r \in 1..2, c \in 1..2 : m[r][c] \in SmallEntries

\* let mut g = Grid::new_with_dimensions_uniform(dimension, ());
DoNewUniform(dimension) ==
    LET r == NewWithDimensionsUniform(dimension, "()") IN
    /\ Running /\ made.by = "none"
    /\ call' = [op |-> "new_with_dimensions_uniform", dimension |-> dimension]
    /\ ret' = r
    /\ grid' = IF r.panic THEN grid ELSE r.val
    /\ made' = [by |-> "uniform", dimension |-> dimension, writes |-> 0]
    /\ UNCHANGED <<build, sparse, touched, tf, uf, queue, past>>

\* let view = TransformGrid::from_grid(&mut g, transform);
DoFromGrid(transform) ==
    LET r == FromGrid(build, transform) IN
    /\ Running /\ made.by = "uniform" /\ ~tf.built
    /\ call' = [op |-> "from_grid", transform |-> transform, rot |-> -1]
    /\ ret' = r
    /\ tf' = IF r.panic THEN tf ELSE r.val
    /\ made' = [by |-> "uniform", dimension |-> made.dimension, writes |-> 0,
                 rot |-> -1]
    /\ UNCHANGED <<build, grid, sparse, touched, uf, queue, past>>

\* let view = TransformGrid::from_grid(&mut g, TransformGrid::rot(count));
DoFromGridRot(count) ==
    LET r == FromGrid(build, Rot(count)) IN
    /\ Running /\ made.by = "uniform" /\ ~tf.built
    /\ call' = [op |-> "from_grid", transform |-> Rot(count), rot |-> count]
    /\ ret' = r
    /\ tf' = IF r.panic THEN tf ELSE r.val
    /\ made' = [by |-> "uniform", dimension |-> made.dimension, writes |-> 0,
                 rot |-> count]
    /\ UNCHANGED <<build, grid, sparse, touched, uf, queue, past>>

\* let m = TransformGrid::rot(count);
DoRot(count) ==
    /\ Running /\ made.by = "none"
    /\ call' = [op |-> "rot", count |-> count]
    /\ ret' = Ok(Rot(count))
    /\ UNCHANGED <<build, grid, made, sparse, touched, tf, uf, queue, past>>

ViewReady ==
    /\ Running /\ tf.built /\ call.op = "from_grid"
    /\ HasSmallEntries(tf.matrix)

\* view.transform_point(p)
DoTransformPoint(p) ==
    /\ ViewReady
    /\ call' = [op |-> "transform_point", p |-> p]
    /\ ret' = Ok(TransformPoint(tf, grid, p))
    /\ UNCHANGED <<build, grid, made, sparse, touched, tf, uf, queue, past>>

\* view.inverse_point(p)
DoInversePoint(p) ==
    /\ ViewReady
    /\ call' = [op |-> "inverse_point", p |-> p]
    /\ ret' = Ok(InversePoint(tf, grid, p))
    /\ UNCHANGED <<build, grid, made, sparse, touched, tf, uf, queue, past>>

\* view.contains(p)
DoViewContains(p) ==
    /\ ViewReady
    /\ call' = [op |-> "view_contains", p |-> p]
    /\ ret' = Ok(ViewContains(tf, grid, p))
    /\ UNCHANGED <<build, grid, made, sparse, touched, tf, uf, queue, past>>

\* view.dimension()
DoViewDimension ==
    /\ ViewReady
    /\ call' = [op |-> "view_dimension"]
    /\ ret' = Ok(ViewDimension(tf, grid))
    /\ UNCHANGED <<build, grid, made, sparse, touched, tf, uf, queue, past>>

NextTransform ==
    \/ made.by = "none" /\ \E d \in ViewDims : DoNewUniform(d)
    \/ call.op = "new_with_dimensions_uniform" /\ \E m \in Matrices : DoFromGrid(m)
    \/ call.op = "new_with_dimensions_uniform" /\ \E n \in 0..MaxRot : DoFromGridRot(n)
    \/ \E n \in 0..MaxRot : DoRot(n)
    \/ \E p \in Points : DoTransformPoint(p)
    \/ \E p \in Points : DoInversePoint(p)
    \/ \E p \in Points : DoViewContains(p)
    \/ DoViewDimension

SpecTransform == Init /\ [][NextTransform]_vars

-----------------------------------------------------------------------------
(* Claims about the Transform View.                                         *)

\* The view was made by from_grid(&mut g, rot(count)).
RotView == tf.built /\ made.rot >= 0

\* The dimension a view by rot(count) is said to have: (w, h) for an even
\* count, (h, w) for an odd one.
RotDimension ==
    IF made.rot % 2 = 0 THEN made.dimension
    ELSE Point(made.dimension.y, made.dimension.x)

\* C1 (as stated): for every view from_grid accepts over a non-empty grid,
\* inverse_point(transform_point(p)) = p for every p in bounds of the
\* underlying grid, and transform_point(inverse_point(q)) = q for every q in
\* the box of view.dimension().
C1_MutualInverses ==
    /\ (call.op = "transform_point" /\ InBox(call.p, Dimension(grid)))
          => InversePoint(tf, grid, ret.val) = call.p
    /\ (call.op = "inverse_point" /\ InBox(call.p, ViewDimension(tf, grid)))
          => TransformPoint(tf, grid, ret.val) = call.p

\* C2: for a view by rot(count) over a w x h grid, transform_point maps every
\* in-bounds source point into the box of view.dimension(), view.contains(q)
\* is true for exactly the points of that box, and view.dimension() is (w, h)
\* for an even count and (h, w) for an odd one.
C2_RotAnchoredAtOrigin ==
    RotView =>
        /\ (call.op = "transform_point" /\ InBox(call.p, Dimension(grid)))
              => InBox(ret.val, ViewDimension(tf, grid))
        /\ call.op = "view_contains"
              => /\ ret.val = InBox(call.p, ViewDimension(tf, grid))
                 /\ ViewDimension(tf, grid) = RotDimension
        /\ call.op = "view_dimension" => ret.val = RotDimension

\* C2's case: an odd number of quarter turns over a grid that is not square;
\* a point outside the source grid's box is contained in the view.
C2_Witness ==
    /\ RotView /\ made.rot % 2 = 1
    /\ made.dimension.x < made.dimension.y
    /\ call.op = "view_contains"
    /\ ~InBox(call.p, made.dimension)
    /\ ret.val = TRUE

\* The determinant of m over the integers is +1 or -1.
DetIsUnit(m) == ExactDet(m) \in {WideOf(1), WideOf(-1)}

\* C10 (as stated): from_grid aborts for every matrix whose determinant is
\* not +1 or -1, and for every matrix M it accepts, the stored matrix_inv is
\* the exact inverse: M * matrix_inv = matrix_inv * M = Identity.
C10_FromGridUnimodular ==
    call.op = "from_grid" =>
        \/ ret.panic
        \/ /\ DetIsUnit(call.transform)
           /\ MatMul(call.transform, tf.matrix_inv) = Identity
           /\ MatMul(tf.matrix_inv, call.transform) = Identity

\* C11: rot(0) = Identity, rot(1) = [[0,-1],[1,0]], rot(3) = [[0,1],[-1,0]],
\* rot(4) = Identity, every rot(count) is the quarter turn times
\* rot(count - 1), and every rot(count) has determinant +1 or -1.
C11_RotIsQuarterTurns ==
    call.op = "rot" =>
        /\ call.count = 0 => ret.val = Identity
        /\ call.count = 1 => ret.val = << <<0, -1>>, <<1, 0>> >>
        /\ call.count = 3 => ret.val = << <<0, 1>>, <<-1, 0>> >>
        /\ call.count = 4 => ret.val = Identity
        /\ call.count > 0 =>
              ret.val = MatMul(<< <<0, -1>>, <<1, 0>> >>, Rot(call.count - 1))
        /\ DetIsUnit(ret.val)

\* C11's case: four quarter turns have been composed and give the identity.
C11_Witness ==
    call.op = "rot" /\ call.count = 4 /\ ~ret.panic /\ ret.val = Identity

-----------------------------------------------------------------------------
(* The UnionFind's state machine.  past keeps the pairs handed to union,    *)
(* each as the set of its two elements, and the number of unions that       *)
(* joined two sets that the earlier pairs had left apart.                   *)

Elements == 0..(MaxItems - 1)

RECURSIVE Reach(_, _)
\* The elements connected to those of S by the pairs.
Reach(S, pairs) ==
    LET T == S \cup UNION {e \in pairs : e \cap S # {}} IN
    IF T = S THEN S ELSE Reach(T, pairs)

\* x and y are related by the reflexive-symmetric-transitive closure of pairs.
Related(pairs, x, y) == y \in Reach({x}, pairs)

\* let mut u = UnionFind::new(items);
DoUnionFindNew(items) ==
    /\ Running /\ past.of = "none"
    /\ call' = [op |-> "new", items |-> items]
    /\ ret' = Returned
    /\ uf' = UnionFindNew(items)
    /\ past' = [of |-> "union_find", items |-> items, pairs |-> {},
                unions |-> 0, merges |-> 0]
    /\ UNCHANGED <<build, grid, made, sparse, touched, tf, queue>>

\* u.union(a, b)
DoUnion(a, b) ==
    /\ Running /\ past.of = "union_find" /\ past.unions < MaxUnions
    /\ call' = [op |-> "union", a |-> a, b |-> b,
                count_before |-> DistinctCount(uf),
                same |-> Related(past.pairs, a, b)]
    /\ IF FindPanics(uf, a) \/ FindPanics(uf, b)
       THEN ret' = Panicked /\ UNCHANGED <<uf, past>>
       ELSE /\ ret' = Returned
            /\ uf' = Union(uf, a, b)
            /\ past' = [past EXCEPT
                           !.pairs = @ \cup {{a, b}},
                           !.unions = @ + 1,
                           !.merges = IF Related(past.pairs, a, b) THEN @ ELSE @ + 1]
    /\ UNCHANGED <<build, grid, made, sparse, touched, tf, queue>>

\* u.find(x)
DoFind(x) ==
    /\ Running /\ past.of = "union_find"
    /\ call' = [op |-> "find", x |-> x, count_before |-> DistinctCount(uf)]
    /\ IF FindPanics(uf, x)
       THEN ret' = Panicked /\ UNCHANGED uf
       ELSE LET r == Find(uf, x) IN ret' = Ok(r.val) /\ uf' = r.uf
    /\ UNCHANGED <<build, grid, made, sparse, touched, tf, queue, past>>

\* u.distinct_count()
DoDistinctCount ==
    /\ Running /\ past.of = "union_find"
    /\ call' = [op |-> "distinct_count"]
    /\ ret' = Ok(DistinctCount(uf))
    /\ UNCHANGED <<build, grid, made, sparse, touched, tf, uf, queue, past>>

NextUnionFind ==
    \/ \E items \in 0..MaxItems : DoUnionFindNew(items)
    \/ \E a \in Elements, b \in Elements : DoUnion(a, b)
    \/ \E x \in Elements : DoFind(x)
    \/ DoDistinctCount

SpecUnionFind == Init /\ [][NextUnionFind]_vars

-----------------------------------------------------------------------------
(* Claims about the UnionFind.                                              *)

\* The elements of the UnionFind in hand.
Members == 0..(Len(uf.inner) - 1)

\* C12: after any sequence of union and find calls with arguments below n,
\* find(x) = find(y) exactly when x and y are related by the closure of the
\* pairs passed to union so far; a find that was made returned that value;
\* before any union, find(x) = x.
C12_FindIsClosure ==
    (past.of = "union_find" /\ Running) =>
        LET found == [x \in Members |-> Find(uf, x).val] IN
        /\ \A x \in Members, y \in Members :
              (found[x] = found[y]) <=> Related(past.pairs, x, y)
        /\ past.pairs = {} => \A x \in Members : found[x] = x
        /\ call.op = "find" => ret.val = found[call.x]

\* C12's case: after three unions a find on an element has returned another
\* element, the representative of a set of at least three with a node of
\* positive rank below it.
C12_Witness ==
    /\ past.of = "union_find" /\ call.op = "find" /\ ~ret.panic
    /\ past.unions = 3
    /\ ret.val # call.x
    /\ \E z \in Members :
          /\ z # call.x /\ z # ret.val
          /\ uf.inner[z + 1].parent = ret.val
          /\ uf.inner[z + 1].rank > 0

\* The elements that are their own parent.
Representatives == {i \in Members : uf.inner[i + 1].parent = i}

\* The disjoint sets the pairs passed to union so far leave.
DisjointSets == {Reach({x}, past.pairs) : x \in Members}

\* C15: after any sequence of union and find calls, distinct_count() is the
\* number of disjoint sets, which is the number of elements that are their
\* own parent and n minus the number of unions that merged two different
\* sets; a union of two elements already in one set, and any find, leave it
\* unchanged.
C15_DistinctCount ==
    (past.of = "union_find" /\ Running) =>
        /\ DistinctCount(uf) = Cardinality(DisjointSets)
        /\ DistinctCount(uf) = Cardinality(Representatives)
        /\ DistinctCount(uf) = past.items - past.merges
        /\ call.op = "distinct_count" => ret.val = Cardinality(DisjointSets)
        /\ call.op = "find" => DistinctCount(uf) = call.count_before
        /\ (call.op = "union" /\ call.same) => DistinctCount(uf) = call.count_before
        /\ (call.op = "union" /\ ~call.same) => DistinctCount(uf) = call.count_before - 1

\* C15's case: after two merging unions, a union of two different elements of
\* one set has been made.
C15_Witness ==
    /\ past.of = "union_find" /\ call.op = "union" /\ ~ret.panic
    /\ call.same /\ call.a # call.b
    /\ past.merges = 2
    /\ DistinctCount(uf) = past.items - 2

-----------------------------------------------------------------------------
(* The BucketQueue's state machine.  past keeps the map given to create,    *)
(* the items pop_min has returned, and for each item given to create the    *)
(* priority it was last given, by create or by modify_key.                  *)

Items == {"apple", "orange"}

\* Priorities handed in; N itself is the one that is not below N.
Priorities == 0..N

InitMaps == UNION {[its -> Priorities] : its \in SUBSET Items}

\* let mut queue = BucketQueue::create(init);
DoCreate(init) ==
    /\ Running /\ past.of = "none"
    /\ call' = [op |-> "create", init |-> init]
    /\ IF CreatePanics(init)
       THEN ret' = Panicked /\ UNCHANGED <<queue, past>>
       ELSE /\ ret' = Returned
            /\ queue' = Create(init)
            /\ past' = [of |-> "queue", init |-> init, popped |-> {},
                        assigned |-> init]
    /\ UNCHANGED <<build, grid, made, sparse, touched, tf, uf>>

\* queue.modify_key(item, to)
DoModifyKey(item, to) ==
    /\ Running /\ past.of = "queue"
    /\ call' = [op |-> "modify_key", item |-> item, to |-> to,
                before |-> queue, popped_before |-> past.popped]
    /\ IF ModifyKeyPanics(queue, item, to)
       THEN ret' = Panicked /\ UNCHANGED <<queue, past>>
       ELSE /\ ret' = Returned
            /\ queue' = ModifyKey(queue, item, to)
            /\ past' = IF item \in DOMAIN past.init
                       THEN [past EXCEPT !.assigned[item] = to]
                       ELSE past
    /\ UNCHANGED <<build, grid, made, sparse, touched, tf, uf>>

\* queue.pop_min(), returning node
DoPopMin(node) ==
    /\ Running /\ past.of = "queue"
    /\ call' = [op |-> "pop_min", before |-> queue,
                popped_before |-> past.popped]
    /\ ret' = Ok(node)
    /\ queue' = PopMin(queue, node)
    /\ past' = IF node.some
               THEN [past EXCEPT !.popped = @ \cup {node.value}]
               ELSE past
    /\ UNCHANGED <<build, grid, made, sparse, touched, tf, uf>>

NextQueue ==
    \/ past.of = "none" /\ \E init \in InitMaps : DoCreate(init)
    \/ \E item \in Items, to \in Priorities : DoModifyKey(item, to)
    \/ past.of = "queue" /\ \E node \in PopMinValues(queue) : DoPopMin(node)

SpecQueue == Init /\ [][NextQueue]_vars

-----------------------------------------------------------------------------
(* Claims about the BucketQueue.                                            *)

\* The items a queue holds: those in its buckets.
Held(q) == UNION {q.inner[p] : p \in DOMAIN q.inner}

\* The items still in the queue before the last call: those given to create
\* that pop_min had not returned.
Remaining == DOMAIN past.init \ call.popped_before

\* C13 (as stated): after any sequence of modify_key and pop_min calls,
\* pop_min returns None exactly when no item remains; otherwise it returns an
\* item still in the queue, with the priority that item was last given (by
\* create or by the last modify_key on it), no remaining item having a lower
\* one.
C13_PopMinIsMinimum ==
    (past.of = "queue" /\ call.op = "pop_min") =>
        LET node == ret.val IN
        /\ ~node.some <=> Remaining = {}
        /\ node.some =>
              /\ node.value \in Remaining
              /\ node.priority = past.assigned[node.value]
              /\ \A y \in Remaining : node.priority <= past.assigned[y]

\* What pop_min does for the items its buckets hold: it returns None exactly
\* when they hold none; otherwise one of them, with the priority it was last
\* given, no held item having a lower one, and the item leaves its bucket.
PopMinOverBuckets ==
    (past.of = "queue" /\ call.op = "pop_min") =>
        LET node == ret.val IN
        /\ ~node.some <=> Held(call.before) = {}
        /\ node.some =>
              /\ node.value \in Held(call.before)
              /\ node.priority = past.assigned[node.value]
              /\ \A y \in Held(call.before) : node.priority <= past.assigned[y]
              /\ Held(queue) = Held(call.before) \ {node.value}
        /\ ~node.some => queue = call.before

\* C14 (as stated): an item pop_min has returned is gone for good: a later
\* modify_key on it changes nothing, no later pop_min returns it, and each
\* bucket holds exactly the items whose entry in priorities names it.
C14_PoppedIsGone ==
    (past.of = "queue" /\ Running) =>
        /\ (call.op = "modify_key" /\ call.item \in call.popped_before)
              => queue = call.before
        /\ (call.op = "pop_min" /\ ret.val.some)
              => ret.val.value \notin call.popped_before
        /\ \A p \in DOMAIN queue.inner :
              queue.inner[p] = {t \in DOMAIN queue.priorities : queue.priorities[t] = p}

=============================================================================
